---- MODULE Spec2Model ----
(***************************************************************************)
(* package-manager-enhancer: the `files` code lens of package.json          *)
(* (src/codeLens/packageJsonFiles.ts), the install-directory walk and the   *)
(* dependency locator (src/utils/pkg.ts), and the repository links of the   *)
(* hover (src/utils/pkg-hover-contents.ts).                                 *)
(*                                                                         *)
(* Strings the code slices, lower-cases or tests by prefix and suffix are   *)
(* sequences of tokens ("README.md" is <<"README", ".md">>, "!lib/**" is    *)
(* <<"!", "lib/**">>); a path is a sequence of names, one per segment.      *)
(***************************************************************************)
EXTENDS Integers, Sequences, FiniteSets, TLC

VARIABLES
    disk,                       \* the paths that exist (files and directories)
    caseInsensitive,            \* the filesystem folds case on lookup
    includeDefaultPackedFiles,  \* configuration.packageJsonFilesCodeLens
    negativePatterns,           \* GlobCodeLensProvider._negativePatterns
    codeLensDataMap,            \* GlobCodeLensProvider._codeLensDataMap (its keys)
    inv,                        \* the getCodeLenses invocations in flight
    symlink,                    \* the symbolic link of the filesystem, if any
    boundaryRoot,               \* the root that bounds the upward walk
    walk,                       \* the findPkgInstallDir call in flight
    hover,                      \* the getPkgNameAndVersionFromDocPosition call
    sites                       \* the pkgWebsites evaluation of the hover

filesVars == <<disk, caseInsensitive, includeDefaultPackedFiles,
               negativePatterns, codeLensDataMap, inv>>

installVars == <<symlink, boundaryRoot, walk>>

vars == <<filesVars, installVars, hover, sites>>

(***************************************************************************)
(* Bounds.                                                                 *)
(***************************************************************************)
MaxPatterns == 2
MaxInvocations == 1
MaxProbes == 5
RaceInvocations == 2

(***************************************************************************)
(* Sequences and strings.                                                  *)
(***************************************************************************)
Range(s) == {s[i] : i \in 1..Len(s)}

Last(s) == s[Len(s)]

Front(s) == SubSeq(s, 1, Len(s) - 1)

SeqsUpTo(S, n) == UNION {[1..k -> S] : k \in 0..n}

\* Set.prototype.add on a set kept in insertion order
SetAdd(s, x) == IF x \in Range(s) THEN s ELSE Append(s, x)

RECURSIVE SetAddAll(_, _)
SetAddAll(s, xs) ==
    IF xs = <<>> THEN s ELSE SetAddAll(SetAdd(s, Head(xs)), Tail(xs))

\* String.prototype.toLowerCase, token by token
LowerToken(t) ==
    CASE t = "README" -> "readme"
      [] t = "Readme" -> "readme"
      [] t = "LICENSE" -> "license"
      [] t = "LICENCE" -> "licence"
      [] OTHER -> t

toLowerCase(name) == [i \in 1..Len(name) |-> LowerToken(name[i])]

\* a path lower-cased segment by segment
LowerPath(p) == [i \in 1..Len(p) |-> toLowerCase(p[i])]

(***************************************************************************)
(* node:path                                                               *)
(***************************************************************************)
dirname(p) == IF p = <<>> THEN <<>> ELSE Front(p)

basename(p) == IF p = <<>> THEN <<>> ELSE Last(p)

\* resolve(base, ...rel) for relative segments without `..`
resolve(base, rel) == base \o rel

(***************************************************************************)
(* utils/fs.ts                                                             *)
(***************************************************************************)
IsPrefix(p, q) == Len(p) <= Len(q) /\ SubSeq(q, 1, Len(p)) = p

\* every path that exists: the listed ones and the directories above them
Entries == UNION {{SubSeq(q, 1, k) : k \in 1..Len(q)} : q \in disk}

\* fs.access(path, F_OK) resolves
Access(path) ==
    IF caseInsensitive
    THEN \E q \in Entries : LowerPath(q) = LowerPath(path)
    ELSE path \in Entries

\* fs.readdir(dir)
Readdir(dir) == {basename(q) : q \in {r \in Entries : dirname(r) = dir}}

pathExists(path) == Access(path) /\ basename(path) \in Readdir(dirname(path))

(***************************************************************************)
(* jsonc-parser: a parse tree is a sequence of nodes, a node's id its index *)
(* (the root is 1, no node is 0).                                           *)
(***************************************************************************)
NoNode == 0

Node(type, parent, children, value, offset, length) ==
    [type |-> type, parent |-> parent, children |-> children,
     value |-> value, offset |-> offset, length |-> length]

\* String.prototype.length, token by token
TokenLen(t) ==
    CASE t = "!" -> 1
      [] t = "lib/**" -> 6
      [] t = "lib/*.test.js" -> 13
      [] t = "package" -> 7
      [] t = ".json" -> 5
      [] t = "index" -> 5
      [] t = ".js" -> 3
      [] t = "42" -> 2
      [] t = ".md" -> 3
      [] OTHER -> 1

RECURSIVE StrLen(_)
StrLen(str) == IF str = <<>> THEN 0 ELSE TokenLen(Head(str)) + StrLen(Tail(str))

\* the length of a scalar's source text
TextLen(e) == IF e.type = "string" THEN StrLen(e.value) + 2 ELSE StrLen(e.value)

RECURSIVE EntriesLen(_)
EntriesLen(es) ==
    IF es = <<>> THEN 0 ELSE TextLen(Head(es)) + 1 + EntriesLen(Tail(es))

\* parseTree of the text {"files":[e1,...,en],"main":"m"}, either member optional
ManifestTree(doc) ==
    LET n == Len(doc.files)
        arrLen == IF n = 0 THEN 2 ELSE 1 + EntriesLen(doc.files)
        filesLen == 8 + arrLen
        filesNodes ==
            IF ~doc.hasFiles THEN <<>>
            ELSE <<Node("property", 1, <<3, 4>>, <<>>, 1, filesLen),
                   Node("string", 2, <<>>, <<"files">>, 1, 7),
                   Node("array", 2, [k \in 1..n |-> 4 + k], <<>>, 9, arrLen)>>
                 \o [k \in 1..n |->
                        Node(doc.files[k].type, 4, <<>>, doc.files[k].value,
                             10 + EntriesLen(SubSeq(doc.files, 1, k - 1)),
                             TextLen(doc.files[k]))]
        m == Len(filesNodes) + 2
        mainOff == IF doc.hasFiles THEN 2 + filesLen ELSE 1
        mainLen == 7 + StrLen(doc.main) + 2
        mainNodes ==
            IF ~doc.hasMain THEN <<>>
            ELSE <<Node("property", 1, <<m + 1, m + 2>>, <<>>, mainOff, mainLen),
                   Node("string", m, <<>>, <<"main">>, mainOff, 6),
                   Node("string", m, <<>>, doc.main, mainOff + 7, StrLen(doc.main) + 2)>>
        props == (IF doc.hasFiles THEN <<2>> ELSE <<>>)
                 \o (IF doc.hasMain THEN <<m>> ELSE <<>>)
        rootLen == 2 + (IF doc.hasFiles THEN filesLen ELSE 0)
                     + (IF doc.hasMain THEN mainLen ELSE 0)
                     + (IF doc.hasFiles /\ doc.hasMain THEN 1 ELSE 0)
    IN <<Node("object", NoNode, props, <<>>, 0, rootLen)>> \o filesNodes \o mainNodes

\* {"dependencies":{"react":"^18","a b":"1","@types/node":"^20"},"files":["dist"]}
HoverDocA ==
    <<Node("object", 0, <<2, 14>>, <<>>, 0, 79),
      Node("property", 1, <<3, 4>>, <<>>, 1, 60),
      Node("string", 2, <<>>, <<"dependencies">>, 1, 14),
      Node("object", 2, <<5, 8, 11>>, <<>>, 16, 45),
      Node("property", 4, <<6, 7>>, <<>>, 17, 13),
      Node("string", 5, <<>>, <<"react">>, 17, 7),
      Node("string", 5, <<>>, <<"^18">>, 25, 5),
      Node("property", 4, <<9, 10>>, <<>>, 31, 9),
      Node("string", 8, <<>>, <<"a", " ", "b">>, 31, 5),
      Node("string", 8, <<>>, <<"1">>, 37, 3),
      Node("property", 4, <<12, 13>>, <<>>, 41, 19),
      Node("string", 11, <<>>, <<"@", "types", "/", "node">>, 41, 13),
      Node("string", 11, <<>>, <<"^20">>, 55, 5),
      Node("property", 1, <<15, 16>>, <<>>, 62, 16),
      Node("string", 14, <<>>, <<"files">>, 62, 7),
      Node("array", 14, <<17>>, <<>>, 70, 8),
      Node("string", 16, <<>>, <<"dist">>, 71, 6)>>

\* {"devDependencies":{"vite":2,"x":{"y":"1"}},"files":["a","b"],"scripts":{"build":"tsc"}}
HoverDocB ==
    <<Node("object", 0, <<2, 14, 19>>, <<>>, 0, 88),
      Node("property", 1, <<3, 4>>, <<>>, 1, 42),
      Node("string", 2, <<>>, <<"devDependencies">>, 1, 17),
      Node("object", 2, <<5, 8>>, <<>>, 19, 24),
      Node("property", 4, <<6, 7>>, <<>>, 20, 8),
      Node("string", 5, <<>>, <<"vite">>, 20, 6),
      Node("number", 5, <<>>, <<"2">>, 27, 1),
      Node("property", 4, <<9, 10>>, <<>>, 29, 13),
      Node("string", 8, <<>>, <<"x">>, 29, 3),
      Node("object", 8, <<11>>, <<>>, 33, 9),
      Node("property", 10, <<12, 13>>, <<>>, 34, 7),
      Node("string", 11, <<>>, <<"y">>, 34, 3),
      Node("string", 11, <<>>, <<"1">>, 38, 3),
      Node("property", 1, <<15, 16>>, <<>>, 44, 17),
      Node("string", 14, <<>>, <<"files">>, 44, 7),
      Node("array", 14, <<17, 18>>, <<>>, 52, 9),
      Node("string", 16, <<>>, <<"a">>, 53, 3),
      Node("string", 16, <<>>, <<"b">>, 57, 3),
      Node("property", 1, <<20, 21>>, <<>>, 62, 25),
      Node("string", 19, <<>>, <<"scripts">>, 62, 9),
      Node("object", 19, <<22>>, <<>>, 72, 15),
      Node("property", 21, <<23, 24>>, <<>>, 73, 13),
      Node("string", 22, <<>>, <<"build">>, 73, 7),
      Node("string", 22, <<>>, <<"tsc">>, 81, 5)>>

\* {"peerDependencies":{"vue"},"optionalDependencies":{"q":"1",".bin":"1"}}
HoverDocC ==
    <<Node("object", 0, <<2, 7>>, <<>>, 0, 72),
      Node("property", 1, <<3, 4>>, <<>>, 1, 26),
      Node("string", 2, <<>>, <<"peerDependencies">>, 1, 18),
      Node("object", 2, <<5>>, <<>>, 20, 7),
      Node("property", 4, <<6>>, <<>>, 21, 6),
      Node("string", 5, <<>>, <<"vue">>, 21, 5),
      Node("property", 1, <<8, 9>>, <<>>, 28, 43),
      Node("string", 7, <<>>, <<"optionalDependencies">>, 28, 22),
      Node("object", 7, <<10, 13>>, <<>>, 51, 20),
      Node("property", 9, <<11, 12>>, <<>>, 52, 7),
      Node("string", 10, <<>>, <<"q">>, 52, 3),
      Node("string", 10, <<>>, <<"1">>, 56, 3),
      Node("property", 9, <<14, 15>>, <<>>, 60, 10),
      Node("string", 13, <<>>, <<".", "bin">>, 60, 6),
      Node("string", 13, <<>>, <<"1">>, 67, 3)>>

\* utils/jsonc.ts parseJsonc: the tree, or undefined for a text with no value in it
parseJsonc(doc) ==
    CASE doc.kind = "manifest" -> ManifestTree(doc)
      [] doc.kind = "A" -> HoverDocA
      [] doc.kind = "B" -> HoverDocB
      [] doc.kind = "C" -> HoverDocC
      [] OTHER -> <<>>

\* the first property of object node `id` named `segment` that has a value
PropertyNamed(tree, id, segment) ==
    LET hits == {k \in 1..Len(tree[id].children) :
                    LET p == tree[tree[id].children[k]]
                    IN  /\ Len(p.children) = 2
                        /\ tree[p.children[1]].value = segment}
    IN IF hits = {} THEN NoNode
       ELSE tree[id].children[CHOOSE k \in hits : \A j \in hits : k <= j]

\* findNodeAtLocation(root, [segment]): the VALUE node of the property
findNodeAtLocation(tree, path) ==
    LET p == IF tree = <<>> \/ tree[1].type # "object" THEN NoNode
             ELSE PropertyNamed(tree, 1, path[1])
    IN IF p = NoNode THEN NoNode ELSE tree[p].children[2]

(***************************************************************************)
(* The filesystem below a directory, and globby.                           *)
(***************************************************************************)
\* the regular files below `dir`, relative to it (onlyFiles: true)
FilesBelow(dir) ==
    {SubSeq(q, Len(dir) + 1, Len(q)) :
        q \in {r \in disk : IsPrefix(dir, r) /\ Len(r) > Len(dir)}}

RECURSIVE SetToSeq(_)
SetToSeq(S) ==
    IF S = {} THEN <<>>
    ELSE LET x == CHOOSE y \in S : TRUE IN <<x>> \o SetToSeq(S \ {x})

isNegativePattern(pattern) == pattern # <<>> /\ Head(pattern) = "!"

\* The glob matcher, taken as an oracle on the patterns of the model: does the
\* glob select the file `rel` (options dot: true, directories expanded)?
GlobMatches(glob, rel) ==
    CASE glob = <<"**/*">> -> TRUE
      [] glob = <<"lib/**">> -> Len(rel) >= 2 /\ rel[1] = <<"lib">>
      [] glob = <<"lib/*.test.js">> ->
            /\ Len(rel) = 2
            /\ rel[1] = <<"lib">>
            /\ Len(rel[2]) >= 2
            /\ SubSeq(rel[2], Len(rel[2]) - 1, Len(rel[2])) = <<".test", ".js">>
      [] glob = <<"*", ".md">> ->
            Len(rel) = 1 /\ Len(rel[1]) >= 2 /\ Last(rel[1]) = ".md"
      [] glob = <<"node_modules">> -> rel[1] = <<"node_modules">>
      [] glob = <<"**/", ".", "*", ".swp">> ->
            \E k \in 1..Len(rel) :
                Len(rel[k]) >= 2 /\ Head(rel[k]) = "." /\ Last(rel[k]) = ".swp"
      [] glob = <<"**/", "._", "*">> -> \E k \in 1..Len(rel) : Head(rel[k]) = "._"
      [] glob = <<"**/", "*", ".orig">> ->
            \E k \in 1..Len(rel) : Len(rel[k]) >= 2 /\ Last(rel[k]) = ".orig"
      [] Head(glob) = "**/" -> \E k \in 1..Len(rel) : rel[k] = Tail(glob)
      [] OTHER -> rel = <<glob>>

\* globby(patterns, {cwd}): a negative pattern is an ignore of the positive
\* patterns that stand before it; with no positive pattern, **/* is put first
globby(patterns, dir) ==
    LET ps == IF \A k \in 1..Len(patterns) : isNegativePattern(patterns[k])
              THEN <<(<<"**/*">>)>> \o patterns ELSE patterns
        selected(rel) ==
            \E k \in 1..Len(ps) :
                /\ ~isNegativePattern(ps[k])
                /\ GlobMatches(ps[k], rel)
                /\ \A j \in (k + 1)..Len(ps) :
                      isNegativePattern(ps[j]) => ~GlobMatches(Tail(ps[j]), rel)
    IN SetToSeq({rel \in FilesBelow(dir) : selected(rel)})

(***************************************************************************)
(* codeLens/packageJsonFiles.ts                                            *)
(***************************************************************************)
defaultIncludedFiles ==
    << <<"package", ".json">>, <<"README", ".md">>,
       <<"LICENSE", ".md">>, <<"LICENCE", ".md">> >>

defaultIgnoredGlobs ==
    << <<"node_modules">>, <<"package-lock", ".json">>,
       <<"**/", ".gitignore">>, <<"**/", ".npmignore">>,
       <<"**/", "npm-debug", ".log">>, <<"**/", ".npmrc">>, <<"**/", ".git">>,
       <<"**/", "CVS">>, <<"**/", ".svn">>, <<"**/", ".hg">>,
       <<"**/", ".lock-wscript">>, <<"**/", ".wafpickle-N">>,
       <<"**/", ".", "*", ".swp">>, <<"**/", ".DS_Store">>,
       <<"**/", "._", "*">>, <<"**/", "config", ".gypi">>,
       <<"**/", "*", ".orig">> >>

defaultIgnoredPatterns ==
    [k \in 1..Len(defaultIgnoredGlobs) |-> <<"!">> \o defaultIgnoredGlobs[k]]

\* document.uri.fsPath
fsPath == << <<"pkg">>, <<"package", ".json">> >>

cwd == dirname(fsPath)

\* the patterns one item is expanded with (lines 98-100)
itemPatternsNegationFirst(item, negs) ==
    IF item.isNegated THEN <<Tail(item.pattern)>> ELSE negs \o <<item.pattern>>

itemPatterns(item, negs) ==
    IF item.isNegated THEN <<Tail(item.pattern)>> ELSE <<item.pattern>> \o negs

expandItemNoDefaultIgnored(patterns) ==
    LET relativeFiles == globby(patterns, cwd)
    IN [k \in 1..Len(relativeFiles) |-> resolve(cwd, relativeFiles[k])]

\* the awaited globby call of one item and its map to absolute paths
expandItem(patterns) ==
    LET relativeFiles == globby(patterns \o defaultIgnoredPatterns, cwd)
    IN [k \in 1..Len(relativeFiles) |-> resolve(cwd, relativeFiles[k])]

\* addFileWhenExists over the candidates of one default file, to the first hit
RECURSIVE addFirstExisting(_, _)
addFirstExisting(totalFiles, candidates) ==
    IF candidates = <<>> THEN totalFiles
    ELSE IF pathExists(Head(candidates)) THEN SetAdd(totalFiles, Head(candidates))
    ELSE addFirstExisting(totalFiles, Tail(candidates))

candidatesOf(file) ==
    IF Last(resolve(cwd, <<file>>)) # <<>> /\ Last(Last(resolve(cwd, <<file>>))) = ".md"
    THEN <<resolve(cwd, <<file>>),
           resolve(cwd, <<Front(file)>>),
           resolve(cwd, <<toLowerCase(file)>>),
           resolve(cwd, <<Front(toLowerCase(file))>>)>>
    ELSE <<resolve(cwd, <<file>>)>>

RECURSIVE addDefaultIncluded(_, _)
addDefaultIncluded(totalFiles, files) ==
    IF files = <<>> THEN totalFiles
    ELSE addDefaultIncluded(addFirstExisting(totalFiles, candidatesOf(Head(files))),
                            Tail(files))

\* lines 180-190: findNodeAtLocation gives the value node of `main`
addMainEntry(totalFiles, tree) ==
    LET mainProperty == findNodeAtLocation(tree, <<(<<"main">>)>>)
    IN IF /\ mainProperty # NoNode
          /\ tree[mainProperty].type = "property"
          /\ tree[tree[mainProperty].children[1]].type = "string"
       THEN addFirstExisting(totalFiles, <<resolve(cwd, <<tree[mainProperty].value>>)>>)
       ELSE totalFiles

\* the body of the 'all' promise after Promise.all(promises) (lines 140-192)
allFilesOf(totalFiles, tree) ==
    IF ~includeDefaultPackedFiles THEN totalFiles
    ELSE addMainEntry(addDefaultIncluded(totalFiles, defaultIncludedFiles), tree)

(***************************************************************************)
(* The documents getCodeLenses is given.                                   *)
(***************************************************************************)
StringEntry(value) == [type |-> "string", value |-> value]

NumberEntry == [type |-> "number", value |-> <<"42">>]

FilesEntries ==
    {StringEntry(<<"lib/**">>), StringEntry(<<"!", "lib/*.test.js">>),
     StringEntry(<<"*", ".md">>), StringEntry(<<"!", "package", ".json">>),
     NumberEntry}

MainEntry == <<"index", ".js">>

EmptyText ==
    [kind |-> "empty", hasFiles |-> FALSE, files |-> <<>>,
     hasMain |-> FALSE, main |-> <<>>]

Manifests ==
    {[kind |-> "manifest", hasFiles |-> hf, files |-> fs, hasMain |-> hm,
      main |-> IF hm THEN MainEntry ELSE <<>>] :
        hf \in BOOLEAN, hm \in BOOLEAN, fs \in SeqsUpTo(FilesEntries, MaxPatterns)}

Documents == {EmptyText} \cup {d \in Manifests : d.hasFiles \/ d.files = <<>>}

\* the files that may lie in the package directory
PackageFiles ==
    {<< <<"lib">>, <<"index", ".js">> >>, << <<"lib">>, <<"index", ".test", ".js">> >>,
     << <<"package", ".json">> >>, << <<"README", ".md">> >>,
     << <<"Readme", ".md">> >>, << <<"index", ".js">> >>,
     << <<"lib">>, <<".DS_Store">> >>}

Slots == 1..MaxInvocations

\* the files of the package the overlapping calls run in
LibIndexFile == resolve(cwd, << <<"lib">>, <<"index", ".js">> >>)

LibIndexTestFile == resolve(cwd, << <<"lib">>, <<"index", ".test", ".js">> >>)

ManifestFile == fsPath

Idle ==
    [pc |-> "idle", doc |-> EmptyText, returned |-> "pending", lenses |-> <<>>,
     tasks |-> <<>>, totalFiles |-> <<>>, allDone |-> FALSE, allFiles |-> <<>>]

\* every promise of the invocation has settled
Finished(r) ==
    /\ r.pc = "returned"
    /\ r.returned = "lenses" => r.allDone /\ \A k \in 1..Len(r.tasks) : r.tasks[k].done

\* GlobCodeLensProvider.getCodeLenses, called first thing (line 52)
superGetCodeLenses ==
    /\ negativePatterns' = <<>>
    /\ codeLensDataMap' = {}

\* lines 48-55: the call, up to its first await
Invoke(i, doc) ==
    /\ inv[i].pc = "idle" \/ Finished(inv[i])
    /\ superGetCodeLenses
    /\ inv' = [inv EXCEPT ![i] = [Idle EXCEPT !.pc = "awaiting", !.doc = doc]]
    /\ UNCHANGED <<disk, caseInsensitive, includeDefaultPackedFiles, installVars, hover, sites>>

firstNonStringUnchecked(tree, children) == 0

\* the index of the first entry that is no string, 0 if all are strings
firstNonString(tree, children) ==
    LET bad == {k \in 1..Len(children) : tree[children[k]].type # "string"}
    IN IF bad = {} THEN 0 ELSE CHOOSE k \in bad : \A j \in bad : k <= j

\* lines 69-88, for the entries the first loop gets through
patternListOf(tree, children) ==
    [k \in 1..Len(children) |->
        [isNegated |-> isNegativePattern(tree[children[k]].value),
         pattern |-> tree[children[k]].value,
         offset |-> tree[children[k]].offset]]

negatedOf(patternList) ==
    LET sel(item) == item.isNegated
        items == SelectSeq(patternList, sel)
    IN [k \in 1..Len(items) |-> items[k].pattern]

\* lines 57-196: from the parse to the return, with no await in between
Resume(i) ==
    LET r == inv[i]
        root == parseJsonc(r.doc)
        filesPropertyNode == findNodeAtLocation(root, <<(<<"files">>)>>)
        children == root[filesPropertyNode].children
        bad == firstNonString(root, children)
        seen == IF bad = 0 THEN children ELSE SubSeq(children, 1, bad - 1)
        patternList == patternListOf(root, seen)
        negs == negativePatterns \o negatedOf(patternList)
        n == Len(patternList)
    IN  /\ r.pc = "awaiting"
        /\ IF root = <<>> \/ filesPropertyNode = NoNode
           THEN /\ inv' = [inv EXCEPT ![i].pc = "returned", ![i].returned = "undefined"]
                /\ UNCHANGED <<negativePatterns, codeLensDataMap>>
           ELSE IF Len(children) = 0
           THEN /\ inv' = [inv EXCEPT ![i].pc = "returned", ![i].returned = "undefined"]
                /\ UNCHANGED <<negativePatterns, codeLensDataMap>>
           ELSE IF bad # 0
           THEN /\ negativePatterns' = negs
                /\ inv' = [inv EXCEPT ![i].pc = "returned", ![i].returned = "undefined"]
                /\ UNCHANGED codeLensDataMap
           ELSE /\ negativePatterns' = negs
                /\ codeLensDataMap' = codeLensDataMap \cup {<<i, k>> : k \in 1..(n + 1)}
                /\ inv' = [inv EXCEPT ![i] =
                      [r EXCEPT !.pc = "returned", !.returned = "lenses",
                                !.lenses = [k \in 1..(n + 1) |-> <<i, k>>],
                                !.tasks = [k \in 1..n |->
                                    [isNegated |-> patternList[k].isNegated,
                                     patterns |-> itemPatterns(patternList[k], negs),
                                     done |-> FALSE, files |-> <<>>]]]]
        /\ UNCHANGED <<disk, caseInsensitive, includeDefaultPackedFiles, installVars, hover, sites>>

\* lines 101-119: the globby call of item k resolves and its callback runs
GlobDone(i, k) ==
    LET r == inv[i]
        absFiles == expandItem(r.tasks[k].patterns)
    IN  /\ r.pc = "returned"
        /\ k \in 1..Len(r.tasks)
        /\ ~r.tasks[k].done
        /\ inv' = [inv EXCEPT ![i] =
              [r EXCEPT !.tasks[k].done = TRUE, !.tasks[k].files = absFiles,
                        !.totalFiles = IF r.tasks[k].isNegated THEN r.totalFiles
                                       ELSE SetAddAll(r.totalFiles, absFiles)]]
        /\ UNCHANGED <<disk, caseInsensitive, includeDefaultPackedFiles,
                       negativePatterns, codeLensDataMap, installVars, hover, sites>>

\* Promise.all(promises): every promise of a non-negated item has resolved
promisesSettledNever(r) == TRUE

promisesSettled(r) ==
    \A k \in 1..Len(r.tasks) : ~r.tasks[k].isNegated => r.tasks[k].done

\* lines 137-193: the 'all' promise, from Promise.all to its return
AllSettle(i) ==
    LET r == inv[i]
        total == allFilesOf(r.totalFiles, parseJsonc(r.doc))
    IN  /\ r.pc = "returned"
        /\ r.returned = "lenses"
        /\ ~r.allDone
        /\ promisesSettled(r)
        /\ inv' = [inv EXCEPT ![i] =
              [r EXCEPT !.allDone = TRUE, !.totalFiles = total, !.allFiles = total]]
        /\ UNCHANGED <<disk, caseInsensitive, includeDefaultPackedFiles,
                       negativePatterns, codeLensDataMap, installVars, hover, sites>>

\* a case-folding filesystem holds no two names that differ in case only
CaseConsistent(d, fold) ==
    fold => \A p, q \in d : LowerPath(p) = LowerPath(q) => p = q

(***************************************************************************)
(* utils/pkg.ts findPkgInstallDir                                          *)
(***************************************************************************)
NODE_MODULES == <<"node_modules">>

PACKAGE_JSON == <<"package", ".json">>

NoLink == [from |-> <<>>, to |-> <<>>]

\* fs.realpath: the path with the symbolic link on it resolved
realpath(path) ==
    IF symlink # NoLink /\ IsPrefix(symlink.from, path)
    THEN symlink.to \o SubSeq(path, Len(symlink.from) + 1, Len(path))
    ELSE path

\* utils/path.ts getRoot: the root that bounds the walk
getRoot(path) == boundaryRoot

NoWalk ==
    [pc |-> "idle", packageName |-> <<>>, baseFilePath |-> <<>>,
     currentDirPath |-> <<>>, endPath |-> <<>>, probes |-> 0,
     found |-> FALSE, pkgInstallDir |-> <<>>]

\* lines 16-20: up to the loop
FindPkgInstallDir(packageName, baseFilePath) ==
    LET real == realpath(baseFilePath)
    IN  /\ walk.pc = "idle"
        /\ baseFilePath \in disk
        /\ walk' = [NoWalk EXCEPT !.pc = "walking",
                                  !.packageName = packageName,
                                  !.baseFilePath = real,
                                  !.currentDirPath = dirname(real),
                                  !.endPath = getRoot(real)]
        /\ UNCHANGED <<filesVars, symlink, boundaryRoot, hover, sites>>

\* pkgExists.every(Boolean)
bothExistEither(pkgInstallDir, pkgJsonPath) ==
    pathExists(pkgInstallDir) \/ pathExists(pkgJsonPath)

bothExist(pkgInstallDir, pkgJsonPath) ==
    pathExists(pkgInstallDir) /\ pathExists(pkgJsonPath)

\* lines 22-37: one turn of the loop
Probe ==
    LET pkgInstallDir == resolve(walk.currentDirPath, <<NODE_MODULES, walk.packageName>>)
        pkgJsonPath == resolve(pkgInstallDir, <<PACKAGE_JSON>>)
    IN  /\ walk.pc = "walking"
        /\ walk.probes < MaxProbes
        /\ IF bothExist(pkgInstallDir, pkgJsonPath)
           THEN walk' = [walk EXCEPT !.pc = "done", !.found = TRUE,
                                     !.pkgInstallDir = pkgInstallDir,
                                     !.probes = @ + 1]
           ELSE IF walk.currentDirPath = walk.endPath
           THEN walk' = [walk EXCEPT !.pc = "done", !.found = FALSE,
                                     !.pkgInstallDir = <<>>,
                                     !.probes = @ + 1]
           ELSE walk' = [walk EXCEPT !.currentDirPath = dirname(walk.currentDirPath),
                                     !.pkgInstallDir = pkgInstallDir,
                                     !.probes = @ + 1]
        /\ UNCHANGED <<filesVars, symlink, boundaryRoot, hover, sites>>

\* the directories a manifest may lie in, and the manifests
WalkDirs ==
    {<<>>, << <<"w">> >>, << <<"w">>, <<"a">> >>, << <<"o">> >>}

LinkDir == << <<"w">>, <<"l">> >>

BaseFiles == {resolve(d, <<PACKAGE_JSON>>) : d \in WalkDirs \cup {LinkDir}}

PackageNames == {<<"x">>, <<"y">>}

\* what may be installed in one directory: nothing, the package directory
\* alone, or the package directory with its package.json
InstallStates == {"none", "dir", "both"}

InstalledIn(d, name, st) ==
    CASE st = "none" -> {}
      [] st = "dir" -> {resolve(d, <<NODE_MODULES, name>>)}
      [] OTHER -> {resolve(d, <<NODE_MODULES, name, PACKAGE_JSON>>)}

InstallDisks ==
    {UNION {InstalledIn(d, <<"x">>, st[d]) : d \in WalkDirs}
        \cup {resolve(d, <<PACKAGE_JSON>>) : d \in WalkDirs} :
            st \in [WalkDirs -> InstallStates]}

(***************************************************************************)
(* utils/pkg.ts getPkgNameAndVersionFromDocPosition                        *)
(***************************************************************************)
contains(node, offset) == offset >= node.offset /\ offset < node.offset + node.length

\* jsonc-parser findNodeAtOffset(node, offset): the innermost node at the offset
RECURSIVE findNodeAtOffset(_, _, _)
findNodeAtOffset(tree, id, offset) ==
    IF ~contains(tree[id], offset) THEN NoNode
    ELSE LET children == tree[id].children
             hits == {k \in 1..Len(children) :
                         /\ \A j \in 1..k : tree[children[j]].offset <= offset
                         /\ findNodeAtOffset(tree, children[k], offset) # NoNode}
         IN IF hits = {} THEN id
            ELSE findNodeAtOffset(tree,
                    children[CHOOSE k \in hits : \A j \in hits : k <= j], offset)

dependenciesNodePath ==
    <<(<<"dependencies">>), (<<"devDependencies">>),
      (<<"peerDependencies">>), (<<"optionalDependencies">>)>>

\* validate-npm-package-name: validForOldPackages
UrlUnsafe == {" ", "/", "@", ":", "?", "#"}

validForOldPackages(name) ==
    /\ name # <<>>
    /\ Head(name) \notin {".", "_"}
    /\ Head(name) # " " /\ Last(name) # " "
    /\ name \notin {<<"node_modules">>, <<"favicon.ico">>}
    /\ \/ \A k \in 1..Len(name) : name[k] \notin UrlUnsafe
       \/ /\ Len(name) = 4
          /\ name[1] = "@" /\ name[3] = "/"
          /\ name[2] \notin UrlUnsafe /\ name[4] \notin UrlUnsafe

\* children![1], undefined past the end
secondChild(tree, id) ==
    IF Len(tree[id].children) >= 2 THEN tree[id].children[2] ELSE NoNode

\* lines 64-70, for a version node that is defined
isHoverOverDependencyAnyChild(tree, nameNode, versionNode, dependenciesNodes) ==
    /\ tree[nameNode].type = "string"
    /\ tree[versionNode].type = "string"
    /\ tree[tree[nameNode].parent].type = "property"
    /\ Len(tree[tree[nameNode].parent].children) = 2
    /\ tree[tree[nameNode].parent].parent \in dependenciesNodes

isHoverOverDependency(tree, nameNode, versionNode, dependenciesNodes) ==
    /\ tree[nameNode].type = "string"
    /\ tree[versionNode].type = "string"
    /\ tree[tree[nameNode].parent].type = "property"
    /\ Len(tree[tree[nameNode].parent].children) = 2
    /\ nameNode = tree[tree[nameNode].parent].children[1]
    /\ tree[tree[nameNode].parent].parent \in dependenciesNodes

NoHover ==
    [pc |-> "idle", doc |-> EmptyText, offset |-> 0, outcome |-> "pending",
     name |-> <<>>, version |-> <<>>, nameNode |-> NoNode, versionNode |-> NoNode]

\* the whole call: its awaits touch no state
GetPkgNameAndVersionFromDocPosition(doc, offset) ==
    LET root == parseJsonc(doc)
        nameNode == findNodeAtOffset(root, 1, offset)
        dependenciesNodes ==
            {findNodeAtLocation(root, <<dependenciesNodePath[k]>>) :
                k \in 1..Len(dependenciesNodePath)}
        versionNode == secondChild(root, root[nameNode].parent)
        none == [NoHover EXCEPT !.pc = "done", !.doc = doc, !.offset = offset,
                                !.outcome = "none"]
    IN  /\ hover.pc = "idle"
        /\ hover' =
              IF root = <<>> THEN none
              ELSE IF nameNode = NoNode \/ root[nameNode].parent = NoNode THEN none
              ELSE IF root[nameNode].type = "string" /\ versionNode = NoNode
              THEN [none EXCEPT !.outcome = "TypeError"]
              ELSE IF root[nameNode].type # "string" THEN none
              ELSE IF ~isHoverOverDependency(root, nameNode, versionNode,
                                             dependenciesNodes)
              THEN none
              ELSE IF ~validForOldPackages(root[nameNode].value) THEN none
              ELSE [none EXCEPT !.outcome = "match",
                                !.nameNode = nameNode,
                                !.versionNode = versionNode,
                                !.name = root[nameNode].value,
                                !.version = root[versionNode].value]
        /\ UNCHANGED <<filesVars, installVars, sites>>

HoverDocuments ==
    {EmptyText} \cup {[EmptyText EXCEPT !.kind = k] : k \in {"A", "B", "C"}}

\* the offsets document.offsetAt can give
Offsets(doc) ==
    LET root == parseJsonc(doc)
    IN IF root = <<>> THEN {0} ELSE 0..(root[1].offset + root[1].length)

(***************************************************************************)
(* utils/pkg-hover-contents.ts: the links of the hover.  An optional        *)
(* string is a record: Some(str), or Nothing for undefined.                 *)
(***************************************************************************)
Nothing == [def |-> FALSE, str |-> <<>>]

Some(str) == [def |-> TRUE, str |-> str]

\* JavaScript truthiness of an optional string
Truthy(v) == v.def /\ v.str # <<>>

\* a manifest field: undefined, a string, or an object with or without a url
NoField == [kind |-> "undefined", hasUrl |-> FALSE, url |-> <<>>]

StringField(url) == [kind |-> "string", hasUrl |-> TRUE, url |-> url]

ObjectField(url) == [kind |-> "object", hasUrl |-> TRUE, url |-> url]

ObjectFieldNoUrl == [kind |-> "object", hasUrl |-> FALSE, url |-> <<>>]

tryGetUrl(val) ==
    IF val.kind = "string" THEN Some(val.url)
    ELSE IF val.kind = "object" /\ val.hasUrl THEN Some(val.url)
    ELSE Nothing

\* utils/path.ts trimLeftSlash
RECURSIVE trimLeftSlash(_)
trimLeftSlash(str) ==
    IF str # <<>> /\ Head(str) = "/" THEN trimLeftSlash(Tail(str)) ELSE str

IndexOf(str, token) ==
    LET hits == {k \in 1..Len(str) : str[k] = token}
    IN IF hits = {} THEN 0 ELSE CHOOSE k \in hits : \A j \in hits : k <= j

\* hosted-git-info fromUrl(url).https({noGitPlus: true, noCommittish: true}),
\* undefined for a url that names no known host
KnownHosts == {"github.com", "gitlab.com", "bitbucket.org"}

Schemes == {"https://", "http://", "git://", "ssh://"}

stripGitPlus(url) == IF url # <<>> /\ Head(url) = "git+" THEN Tail(url) ELSE url

stripCommittish(url) ==
    IF IndexOf(url, "#") = 0 THEN url ELSE SubSeq(url, 1, IndexOf(url, "#") - 1)

stripAuth(url) ==
    IF Len(url) >= 2 /\ url[1] \in Schemes /\ url[2] = "git@"
    THEN <<url[1]>> \o SubSeq(url, 3, Len(url)) ELSE url

httpsTemplate(domain, user, project) ==
    Some(<<"https://", domain, "/", user, "/", project, ".git">>)

\* the host, user and project of a url with git+, committish, .git and auth
\* taken off
hostedOf(u) ==
    CASE Len(u) = 4 /\ u[1] = "github:" /\ u[3] = "/" ->
            httpsTemplate("github.com", u[2], u[4])
      [] Len(u) = 3 /\ u[2] = "/" /\ u[1] \notin Schemes \cup {"git@", "github:", "/"} ->
            httpsTemplate("github.com", u[1], u[3])
      [] Len(u) = 6 /\ u[1] \in Schemes /\ u[2] \in KnownHosts
            /\ u[3] \in {"/", ":"} /\ u[5] = "/" ->
            httpsTemplate(u[2], u[4], u[6])
      [] Len(u) = 6 /\ u[1] = "git@" /\ u[2] \in KnownHosts
            /\ u[3] = ":" /\ u[5] = "/" ->
            httpsTemplate(u[2], u[4], u[6])
      [] OTHER -> Nothing

\* result.replace(/\.git$/, '')
stripDotGit(str) == IF str # <<>> /\ Last(str) = ".git" THEN Front(str) ELSE str

hostedHttps(url) == hostedOf(stripAuth(stripDotGit(stripCommittish(stripGitPlus(url)))))

\* /^https?:\/\/.*/i.test(url)
isHttpUrl(url) == url # <<>> /\ Head(url) \in {"https://", "http://"}

extractGitUrl(url) ==
    LET result == IF isHttpUrl(url) THEN Some(url) ELSE hostedHttps(trimLeftSlash(url))
    IN IF Truthy(result) THEN Some(stripDotGit(result.str)) ELSE result

Link(label, url) == [label |-> label, url |-> url]

NoSites ==
    [pc |-> "idle", packageInfo |->
        [isBuiltinModule |-> FALSE, name |-> <<>>, installedVersion |-> Nothing,
         repository |-> NoField, homepage |-> NoField, bugs |-> NoField],
     fromRepository |-> Nothing, repositoryUrl |-> Nothing,
     homepageUrl |-> Nothing, infos |-> <<>>]

packageNameAndVersion(packageInfo) ==
    packageInfo.name \o
        (IF Truthy(packageInfo.installedVersion)
         THEN <<"@">> \o packageInfo.installedVersion.str ELSE <<>>)

\* lines 174-178: the repository field, normalised
repositoryOfField(packageInfo) ==
    IF Truthy(tryGetUrl(packageInfo.repository))
    THEN extractGitUrl(tryGetUrl(packageInfo.repository).str)
    ELSE tryGetUrl(packageInfo.repository)

\* lines 181-187: the bugs url cut at its first /issues, normalised
repositoryOfBugs(bugsUrl) ==
    IF IndexOf(bugsUrl, "/issues") # 0
    THEN extractGitUrl(SubSeq(bugsUrl, 1, IndexOf(bugsUrl, "/issues") - 1))
    ELSE extractGitUrl(bugsUrl)

repositoryUrlOfNoFallback(packageInfo, fromField) == fromField

\* lines 176-189
repositoryUrlOf(packageInfo, fromField) ==
    IF ~Truthy(fromField) /\ Truthy(tryGetUrl(packageInfo.bugs))
    THEN repositoryOfBugs(tryGetUrl(packageInfo.bugs).str)
    ELSE fromField

\* lines 173 and 191-193
homepageUrlOf(packageInfo, repositoryUrl) ==
    IF repositoryUrl = tryGetUrl(packageInfo.homepage) THEN Nothing
    ELSE tryGetUrl(packageInfo.homepage)

npmUrlOf(packageInfo) ==
    <<"https://www.npmjs.com/package/">> \o packageInfo.name \o
        (IF Truthy(packageInfo.installedVersion)
         THEN <<"/v/">> \o packageInfo.installedVersion.str ELSE <<>>)

\* lines 199-220
infosOf(npmUrl, homepageUrl, repositoryUrl, pkgName, nameAndVersion) ==
    <<Link("Npm", npmUrl)>>
    \o (IF Truthy(homepageUrl) THEN <<Link("HomePage", homepageUrl.str)>> ELSE <<>>)
    \o (IF Truthy(repositoryUrl) THEN <<Link("Repository", repositoryUrl.str)>>
        ELSE <<>>)
    \o <<Link("Sync Mirror", <<"https://npmmirror.com/sync/">> \o pkgName),
         Link("Npm View", <<"https://npmview.vercel.app/">> \o nameAndVersion),
         Link("Npm Trends", <<"https://npmtrends.com/">> \o pkgName),
         Link("Npm Graph", <<"https://npmgraph.js.org/?q=">> \o nameAndVersion),
         Link("Npm Charts", <<"https://npmcharts.com/compare/">> \o pkgName),
         Link("Npm Stats", <<"https://npm-stat.com/charts.html?package=">> \o pkgName),
         Link("Moiva", <<"https://moiva.io/?npm=">> \o pkgName),
         Link("RunKit", <<"https://npm.runkit.com/">> \o pkgName)>>

sitesOf(packageInfo, fromField, repositoryUrl, homepageUrl) ==
    [pc |-> "done", packageInfo |-> packageInfo,
     fromRepository |-> fromField, repositoryUrl |-> repositoryUrl,
     homepageUrl |-> homepageUrl,
     infos |-> infosOf(npmUrlOf(packageInfo), homepageUrl, repositoryUrl,
                       packageInfo.name, packageNameAndVersion(packageInfo))]

\* the getter pkgWebsites (lines 167-222)
PkgWebsites(packageInfo) ==
    /\ sites.pc = "idle"
    /\ sites' =
          IF packageInfo.isBuiltinModule
          THEN [NoSites EXCEPT !.pc = "done", !.packageInfo = packageInfo]
          ELSE sitesOf(packageInfo,
                       repositoryOfField(packageInfo),
                       repositoryUrlOf(packageInfo, repositoryOfField(packageInfo)),
                       homepageUrlOf(packageInfo,
                           repositoryUrlOf(packageInfo, repositoryOfField(packageInfo))))
    /\ UNCHANGED <<filesVars, installVars, hover>>

\* the field values of the manifests described
GitHubRepo == <<"github.com", "/", "user", "/", "repo">>

CanonicalRepo == <<"https://">> \o GitHubRepo

RepositoryUrls ==
    {<<"git+", "https://">> \o GitHubRepo \o <<".git", "#", "main">>,
     <<"github:", "user", "/", "repo">>,
     <<"user", "/", "repo">>,
     <<"/", "user", "/", "repo">>,
     <<"git@", "github.com", ":", "user", "/", "repo", ".git">>,
     <<"git+", "ssh://", "git@", "gitlab.com", "/", "user", "/", "repo", ".git">>,
     <<"git+", "https://", "example.com", "/", "user", "/", "repo", ".git">>,
     <<"https://">> \o GitHubRepo \o <<".git">>,
     <<"https://">> \o GitHubRepo \o <<".git", "#", "main">>,
     <<"http://">> \o GitHubRepo,
     <<>>}

RepositoryFields ==
    {NoField, ObjectFieldNoUrl}
        \cup {StringField(u) : u \in RepositoryUrls}
        \cup {ObjectField(u) : u \in RepositoryUrls}

HomepageFields ==
    {NoField, StringField(CanonicalRepo), StringField(<<"https://", "repo.dev">>)}

BugsFields ==
    {NoField, StringField(CanonicalRepo \o <<"/issues">>),
     StringField(CanonicalRepo \o <<"/issues", "/", "7", "/issues">>),
     ObjectField(<<"https://", "tracker.dev", "/", "repo">>)}

PackageInfos ==
    {[isBuiltinModule |-> b, name |-> <<"repo">>, installedVersion |-> v,
      repository |-> r, homepage |-> h, bugs |-> g] :
        b \in BOOLEAN, v \in {Nothing, Some(<<"1.0.0">>)},
        r \in RepositoryFields, h \in HomepageFields, g \in BugsFields}

(***************************************************************************)
(* The specifications.                                                     *)
(***************************************************************************)
InitFiles ==
    /\ disk \in {{resolve(cwd, f) : f \in S} : S \in SUBSET PackageFiles}
    /\ caseInsensitive \in BOOLEAN
    /\ CaseConsistent(disk, caseInsensitive)
    /\ includeDefaultPackedFiles \in BOOLEAN
    /\ negativePatterns = <<>>
    /\ codeLensDataMap = {}
    /\ inv = [i \in Slots |-> Idle]

InitInstall ==
    /\ symlink \in {NoLink, [from |-> LinkDir, to |-> << <<"o">> >>],
                    [from |-> LinkDir, to |-> << <<"w">>, <<"a">> >>]}
    /\ disk \in {d \cup (IF symlink = NoLink THEN {}
                         ELSE {resolve(LinkDir, <<PACKAGE_JSON>>)}) :
                    d \in InstallDisks}
    /\ caseInsensitive \in BOOLEAN
    /\ boundaryRoot \in {<<>>, << <<"w">> >>}
    /\ walk = NoWalk

Init ==
    /\ InitFiles
    /\ symlink = NoLink
    /\ boundaryRoot = <<>>
    /\ walk = NoWalk
    /\ hover = NoHover
    /\ sites = NoSites

Next ==
    \/ \E i \in Slots, doc \in Documents : Invoke(i, doc)
    \/ \E i \in Slots : Resume(i)
    \/ \E i \in Slots, k \in 1..MaxPatterns : GlobDone(i, k)
    \/ \E i \in Slots : AllSettle(i)

Spec == Init /\ [][Next]_vars

InstallInit ==
    /\ InitInstall
    /\ includeDefaultPackedFiles = FALSE
    /\ negativePatterns = <<>>
    /\ codeLensDataMap = {}
    /\ inv = [i \in Slots |-> Idle]
    /\ hover = NoHover
    /\ sites = NoSites

InstallNext ==
    \/ \E packageName \in PackageNames, baseFilePath \in BaseFiles :
          FindPkgInstallDir(packageName, baseFilePath)
    \/ Probe

InstallSpec == InstallInit /\ [][InstallNext]_vars

LocateInit ==
    /\ disk = {}
    /\ caseInsensitive = FALSE
    /\ includeDefaultPackedFiles = FALSE
    /\ negativePatterns = <<>>
    /\ codeLensDataMap = {}
    /\ inv = [i \in Slots |-> Idle]
    /\ symlink = NoLink
    /\ boundaryRoot = <<>>
    /\ walk = NoWalk
    /\ hover = NoHover
    /\ sites = NoSites

LocateNext ==
    \E doc \in HoverDocuments :
        \E offset \in Offsets(doc) : GetPkgNameAndVersionFromDocPosition(doc, offset)

LocateSpec == LocateInit /\ [][LocateNext]_vars

SitesNext == \E packageInfo \in PackageInfos : PkgWebsites(packageInfo)

SitesInit == LocateInit

SitesSpec == SitesInit /\ [][SitesNext]_vars

\* getCodeLenses called for several documents on one provider instance, the
\* calls overlapping at their awaits
RaceSlots == 1..RaceInvocations

RaceFiles ==
    {<<StringEntry(<<"lib/**">>), StringEntry(<<"!", "lib/*.test.js">>)>>,
     <<StringEntry(<<"lib/**">>)>>,
     <<StringEntry(<<"!", "package", ".json">>), NumberEntry>>}

RaceDocuments ==
    {d \in Documents : d.hasFiles /\ ~d.hasMain /\ d.files \in RaceFiles}

RaceInit ==
    /\ disk = {LibIndexFile, LibIndexTestFile, ManifestFile}
    /\ caseInsensitive = FALSE
    /\ includeDefaultPackedFiles \in BOOLEAN
    /\ negativePatterns = <<>>
    /\ codeLensDataMap = {}
    /\ inv = [i \in RaceSlots |-> Idle]
    /\ symlink = NoLink
    /\ boundaryRoot = <<>>
    /\ walk = NoWalk
    /\ hover = NoHover
    /\ sites = NoSites

RaceNext ==
    \/ \E i \in RaceSlots, doc \in RaceDocuments : Invoke(i, doc)
    \/ \E i \in RaceSlots : Resume(i)
    \/ \E i \in RaceSlots, k \in 1..MaxPatterns : GlobDone(i, k)
    \/ \E i \in RaceSlots : AllSettle(i)

RaceSpec == RaceInit /\ [][RaceNext]_vars

(***************************************************************************)
(* The claims about the `files` code lens.                                 *)
(***************************************************************************)
relativeTo(dir, path) == SubSeq(path, Len(dir) + 1, Len(path))

\* the negated entries of the invocation's own `files` list
ownNegated(r) ==
    {r.doc.files[k].value : k \in {j \in 1..Len(r.doc.files) :
        r.doc.files[j].type = "string" /\ isNegativePattern(r.doc.files[j].value)}}

matchedByOwnNegated(r, path) ==
    \E neg \in ownNegated(r) : GlobMatches(Tail(neg), relativeTo(cwd, path))

\* every path the default-file probing can add
defaultCandidates ==
    UNION {Range(candidatesOf(defaultIncludedFiles[k])) :
              k \in 1..Len(defaultIncludedFiles)}

LibIndex == resolve(cwd, << <<"lib">>, <<"index", ".js">> >>)

LibIndexTest == resolve(cwd, << <<"lib">>, <<"index", ".test", ".js">> >>)

PackageJson == resolve(cwd, << <<"package", ".json">> >>)

\* C1 as stated: the file set of the 'all' lens holds no path that a negated
\* pattern of the list matches.
C1_AllExcludesNegated ==
    \A i \in Slots :
        inv[i].allDone =>
            \A f \in Range(inv[i].allFiles) : ~matchedByOwnNegated(inv[i], f)

\* C1, amended: the set accumulated from the patterns never holds a path that a
\* negated pattern of the list matches, wherever that pattern stands; the file
\* set of the 'all' lens holds such a path only when includeDefaultPackedFiles
\* is on and the path is one of the default packed files.
C1_NegationIsGlobal ==
    \A i \in Slots :
        /\ ~inv[i].allDone =>
              \A f \in Range(inv[i].totalFiles) : ~matchedByOwnNegated(inv[i], f)
        /\ inv[i].allDone =>
              \A f \in Range(inv[i].allFiles) :
                  matchedByOwnNegated(inv[i], f) =>
                      includeDefaultPackedFiles /\ f \in defaultCandidates

\* a negated pattern standing BEFORE the positive one has excluded a file
C1_Witness ==
    \E i \in Slots :
        /\ inv[i].allDone
        /\ inv[i].doc.files =
              <<StringEntry(<<"!", "lib/*.test.js">>), StringEntry(<<"lib/**">>)>>
        /\ LibIndexTest \in disk
        /\ LibIndex \in Range(inv[i].allFiles)
        /\ LibIndexTest \notin Range(inv[i].allFiles)

\* the expansions run one after the other, in the order of the list
RECURSIVE inListOrder(_, _)
inListOrder(totalFiles, tasks) ==
    IF tasks = <<>> THEN totalFiles
    ELSE inListOrder(
            IF Head(tasks).isNegated THEN totalFiles
            ELSE SetAddAll(totalFiles, expandItem(Head(tasks).patterns)),
            Tail(tasks))

\* C2: the set of the 'all' lens is the one the expansions give when run in
\* list order, whatever order they completed in; it is read only after every
\* non-negated expansion has finished; the accumulating set only grows.
C2_OrderIndependent ==
    /\ [](\A i \in Slots :
            inv[i].allDone =>
                /\ \A k \in 1..Len(inv[i].tasks) :
                      ~inv[i].tasks[k].isNegated => inv[i].tasks[k].done
                /\ Range(inv[i].allFiles) =
                      Range(allFilesOf(inListOrder(<<>>, inv[i].tasks),
                                       parseJsonc(inv[i].doc))))
    /\ [][\A i \in Slots :
            inv'[i].pc = "returned" /\ inv[i].pc = "returned" =>
                Range(inv[i].totalFiles) \subseteq Range(inv'[i].totalFiles)]_vars

\* two non-negated expansions completed in the reverse of the list order
C2_Witness ==
    \E i \in Slots :
        /\ inv[i].allDone
        /\ Len(inv[i].tasks) = 2
        /\ inv[i].doc.files = <<StringEntry(<<"lib/**">>), StringEntry(<<"*", ".md">>)>>
        /\ Len(inv[i].tasks[1].files) > 0
        /\ Len(inv[i].tasks[2].files) > 0
        /\ inv[i].allFiles[1] \in Range(inv[i].tasks[2].files)

Readme == resolve(cwd, << <<"Readme", ".md">> >>)

README == resolve(cwd, << <<"README", ".md">> >>)

Occurrences(s, x) == Cardinality({k \in 1..Len(s) : s[k] = x})

\* C4 as stated: with the default files on, Readme.md present and README.md
\* absent, the set of the 'all' lens holds Readme.md exactly once.
C4_MixedCaseReadmeIncluded ==
    \A i \in Slots :
        /\ inv[i].allDone
        /\ includeDefaultPackedFiles
        /\ Readme \in disk
        /\ README \notin disk
        => Occurrences(inv[i].allFiles, Readme) = 1

\* the first candidate of a default file that exists, if any
firstExisting(candidates) ==
    LET hits == {k \in 1..Len(candidates) : candidates[k] \in disk}
    IN IF hits = {} THEN {}
       ELSE {candidates[CHOOSE k \in hits : \A j \in hits : k <= j]}

patternFiles(r) ==
    UNION {Range(r.tasks[k].files) :
              k \in {j \in 1..Len(r.tasks) : ~r.tasks[j].isNegated}}

\* C5 as stated: with the default files on, the set of the 'all' lens is the
\* pattern matches plus package.json, the first existing candidate of each
\* README / LICENSE / LICENCE group, and the `main` entry if it exists.
C5_DefaultsAndMainIncluded ==
    \A i \in Slots :
        inv[i].allDone /\ includeDefaultPackedFiles =>
            Range(inv[i].allFiles) =
                patternFiles(inv[i])
                \cup UNION {firstExisting(candidatesOf(defaultIncludedFiles[k])) :
                               k \in 1..Len(defaultIncludedFiles)}
                \cup (IF inv[i].doc.hasMain
                      THEN {resolve(cwd, <<inv[i].doc.main>>)} \cap disk
                      ELSE {})

hasNonString(doc) ==
    doc.hasFiles /\ \E k \in 1..Len(doc.files) : doc.files[k].type # "string"

\* a file of the built-in ignore list, below lib
DSStore == resolve(cwd, << <<"lib">>, <<".DS_Store">> >>)

matchedByOwnPositive(r, path) ==
    \E k \in 1..Len(r.doc.files) :
        /\ r.doc.files[k].type = "string"
        /\ ~isNegativePattern(r.doc.files[k].value)
        /\ GlobMatches(r.doc.files[k].value, relativeTo(cwd, path))

builtinIgnored(path) ==
    \E k \in 1..Len(defaultIgnoredGlobs) :
        GlobMatches(defaultIgnoredGlobs[k], relativeTo(cwd, path))

\* C11: before the default files are added, every path of the accumulated set
\* is matched by a non-negated pattern of the list and is outside the built-in
\* ignore list; the set is the union of the finished non-negated expansions,
\* so the expansion of a negated pattern adds nothing; each path is held once.
C11_NegationOnlyNarrows ==
    \A i \in Slots :
        inv[i].pc = "returned" /\ (~inv[i].allDone \/ ~includeDefaultPackedFiles) =>
            /\ \A f \in Range(inv[i].totalFiles) :
                  /\ matchedByOwnPositive(inv[i], f)
                  /\ ~builtinIgnored(f)
                  /\ Occurrences(inv[i].totalFiles, f) = 1
            /\ Range(inv[i].totalFiles) = patternFiles(inv[i])

\* the expansion of the negated pattern found lib/index.test.js, the ignored
\* lib/.DS_Store is on disk, and the accumulated set holds lib/index.js alone
C11_Witness ==
    \E i \in Slots :
        /\ inv[i].doc.files =
              <<StringEntry(<<"lib/**">>), StringEntry(<<"!", "lib/*.test.js">>)>>
        /\ inv[i].pc = "returned"
        /\ ~inv[i].allDone
        /\ inv[i].tasks[1].done
        /\ inv[i].tasks[2].done
        /\ LibIndexTest \in Range(inv[i].tasks[2].files)
        /\ DSStore \in disk
        /\ inv[i].totalFiles = <<LibIndex>>

\* C8: a `files` array with an entry that is no string makes getCodeLenses
\* return undefined: no lens is created or registered, no glob expansion is
\* started.
C8_NonStringAborts ==
    \A i \in Slots :
        inv[i].pc = "returned" /\ hasNonString(inv[i].doc) =>
            /\ inv[i].returned = "undefined"
            /\ inv[i].lenses = <<>>
            /\ inv[i].tasks = <<>>
            /\ \A k \in 1..(MaxPatterns + 1) : <<i, k>> \notin codeLensDataMap

\* the malformed entry stands after a well-formed negated one
C8_Witness ==
    \E i \in Slots :
        /\ inv[i].pc = "returned"
        /\ inv[i].doc.files = <<StringEntry(<<"!", "lib/*.test.js">>), NumberEntry>>
        /\ inv[i].returned = "undefined"

(***************************************************************************)
(* The claims about findPkgInstallDir.                                     *)
(***************************************************************************)
startDir == dirname(walk.baseFilePath)

\* the lengths of the directories from the start up to the boundary root (up
\* to the filesystem root when the boundary root is not above the start)
walkedLengths ==
    (IF IsPrefix(walk.endPath, startDir) THEN Len(walk.endPath) ELSE 0)..Len(startDir)

hasPackage(dir, name) ==
    /\ resolve(dir, <<NODE_MODULES, name>>) \in Entries
    /\ resolve(dir, <<NODE_MODULES, name, PACKAGE_JSON>>) \in Entries

\* C3: a call that returns gives none when no directory from the start up to
\* the boundary root holds node_modules/<name> with its package.json, and
\* otherwise <dir>/node_modules/<name> for the nearest such directory.
C3_NearestInstallDir ==
    walk.pc = "done" =>
        LET hits == {k \in walkedLengths :
                        hasPackage(SubSeq(startDir, 1, k), walk.packageName)}
        IN IF hits = {} THEN ~walk.found
           ELSE /\ walk.found
                /\ walk.pkgInstallDir =
                      resolve(SubSeq(startDir, 1,
                                     CHOOSE k \in hits : \A j \in hits : j <= k),
                              <<NODE_MODULES, walk.packageName>>)

\* the nearest level holds the package directory without package.json and is
\* skipped for the one above
C3_Witness ==
    /\ walk.pc = "done"
    /\ walk.found
    /\ startDir = << <<"w">>, <<"a">> >>
    /\ resolve(startDir, <<NODE_MODULES, walk.packageName>>) \in Entries
    /\ walk.pkgInstallDir = << <<"w">>, NODE_MODULES, walk.packageName >>

\* C9 as stated: every turn of the loop that does not return strictly shortens
\* the current directory, so the walk returns within one probe per directory
\* from the start to the filesystem root.
C9_WalkShortens ==
    /\ walk.pc = "walking" =>
          Len(walk.currentDirPath) + walk.probes = Len(startDir)
    /\ walk.pc = "done" => walk.probes <= Len(startDir) + 1

(***************************************************************************)
(* The claims about getPkgNameAndVersionFromDocPosition.                   *)
(***************************************************************************)
\* the entries of the four dependency maps with a string value and a valid name
dependencyEntries(tree) ==
    {p \in 1..Len(tree) :
        /\ tree[p].type = "property"
        /\ Len(tree[p].children) = 2
        /\ tree[tree[p].children[1]].type = "string"
        /\ tree[tree[p].children[2]].type = "string"
        /\ validForOldPackages(tree[tree[p].children[1]].value)
        /\ tree[p].parent # NoNode
        /\ tree[tree[p].parent].type = "object"
        /\ tree[tree[p].parent].parent # NoNode
        /\ LET map == tree[tree[p].parent].parent
           IN  /\ tree[map].type = "property"
               /\ tree[map].parent = 1
               /\ tree[tree[map].children[1]].value \in Range(dependenciesNodePath)}

onNode(tree, id, offset) ==
    offset >= tree[id].offset /\ offset < tree[id].offset + tree[id].length

\* C6: with the cursor on the key of such an entry the call returns the name,
\* the version text and both nodes; with the cursor on its value, none.
C6_KeyMatchesValueDoesNot ==
    hover.pc = "done" =>
        LET tree == parseJsonc(hover.doc)
        IN \A p \in dependencyEntries(tree) :
              LET key == tree[p].children[1]
                  val == tree[p].children[2]
              IN  /\ onNode(tree, key, hover.offset) =>
                        /\ hover.outcome = "match"
                        /\ hover.name = tree[key].value
                        /\ hover.version = tree[val].value
                        /\ hover.nameNode = key
                        /\ hover.versionNode = val
                  /\ onNode(tree, val, hover.offset) => hover.outcome = "none"

\* the cursor is on "react" of {"dependencies":{"react":"^18",...}}
C6_Witness ==
    /\ hover.pc = "done"
    /\ hover.doc.kind = "A"
    /\ hover.outcome = "match"
    /\ hover.name = <<"react">>
    /\ hover.version = <<"^18">>

\* C10 as stated: a match only for a string key of a two-child property with a
\* string value inside one of the four dependency maps; none, without raising,
\* everywhere else.
C10_NoneWithoutRaising ==
    hover.pc = "done" =>
        LET tree == parseJsonc(hover.doc)
        IN  /\ hover.outcome \in {"match", "none"}
            /\ hover.outcome = "match" =>
                  \E p \in dependencyEntries(tree) :
                      onNode(tree, tree[p].children[1], hover.offset)

(***************************************************************************)
(* The claims about the repository link.                                   *)
(***************************************************************************)
canonicalHttps(url) ==
    /\ url # <<>>
    /\ Head(url) = "https://"
    /\ "git+" \notin Range(url)
    /\ Last(url) # ".git"
    /\ "#" \notin Range(url)

\* C7 as stated: the URL derived from the repository field is a canonical
\* HTTPS URL with no git+ prefix, no trailing .git and no commit-ish, for
\* shorthands and bare http(s) URLs alike;
\* git+https://github.com/user/repo.git#main gives https://github.com/user/repo.
C7_RepositoryUrlCanonical ==
    sites.pc = "done" /\ ~sites.packageInfo.isBuiltinModule =>
        /\ Truthy(sites.fromRepository) => canonicalHttps(sites.fromRepository.str)
        /\ sites.packageInfo.repository.hasUrl
              /\ sites.packageInfo.repository.url =
                    <<"git+", "https://">> \o GitHubRepo \o <<".git", "#", "main">>
              => sites.repositoryUrl = Some(CanonicalRepo)

\* the links of the list under a label
linksLabelled(label) ==
    {sites.infos[k].url : k \in {j \in 1..Len(sites.infos) : sites.infos[j].label = label}}

fixedLabels ==
    {"Npm", "Sync Mirror", "Npm View", "Npm Trends", "Npm Graph", "Npm Charts",
     "Npm Stats", "Moiva", "RunKit"}

\* the repository link was derived from the bugs field
fellBackToBugs == ~Truthy(sites.fromRepository) /\ Truthy(sites.repositoryUrl)

\* a url up to its first /issues
cutAtIssues(url) ==
    IF "/issues" \in Range(url)
    THEN SubSeq(url, 1, (CHOOSE k \in 1..Len(url) :
                            url[k] = "/issues" /\ \A j \in 1..(k - 1) : url[j] # "/issues") - 1)
    ELSE url

\* the homepage link is there exactly when the homepage field gives a non-empty
\* url that differs from the derived repository url; the fixed links are there
homepageAndFixedLinks ==
    /\ linksLabelled("HomePage") =
          IF /\ Truthy(tryGetUrl(sites.packageInfo.homepage))
             /\ tryGetUrl(sites.packageInfo.homepage) # sites.repositoryUrl
          THEN {tryGetUrl(sites.packageInfo.homepage).str} ELSE {}
    /\ linksLabelled("Repository") =
          IF Truthy(sites.repositoryUrl) THEN {sites.repositoryUrl.str} ELSE {}
    /\ \A label \in fixedLabels : linksLabelled(label) # {}

\* C12 as stated: the repository link comes from the bugs url only when the
\* manifest has no repository field; the homepage link is emitted iff a
\* homepage is present and differs from the derived repository url; missing
\* fields do not prevent the remaining links.
C12_FallbackOnlyWithoutRepository ==
    sites.pc = "done" /\ ~sites.packageInfo.isBuiltinModule =>
        /\ fellBackToBugs => sites.packageInfo.repository = NoField
        /\ homepageAndFixedLinks

\* C12, amended: the repository link comes from the bugs url (cut at its first
\* /issues, then normalised) whenever the repository field gives no url: the
\* field is missing, has no url string, is empty, or names no known host; the
\* homepage link is emitted iff the homepage gives a non-empty url that
\* differs from the derived repository url; the other links are always there.
C12_FallbackWhenNoRepositoryUrl ==
    sites.pc = "done" /\ ~sites.packageInfo.isBuiltinModule =>
        /\ sites.repositoryUrl =
              IF Truthy(sites.fromRepository) THEN sites.fromRepository
              ELSE IF Truthy(tryGetUrl(sites.packageInfo.bugs))
              THEN extractGitUrl(cutAtIssues(tryGetUrl(sites.packageInfo.bugs).str))
              ELSE sites.fromRepository
        /\ fellBackToBugs =>
              \/ sites.packageInfo.repository \in {NoField, ObjectFieldNoUrl}
              \/ sites.packageInfo.repository.url = <<>>
              \/ hostedHttps(trimLeftSlash(sites.packageInfo.repository.url)) = Nothing
        /\ homepageAndFixedLinks

\* a repository object without url: the link comes from the bugs url, cut at
\* the first of its two /issues, and the equal homepage is left out
C12_Witness ==
    /\ sites.pc = "done"
    /\ sites.packageInfo.repository = ObjectFieldNoUrl
    /\ sites.packageInfo.bugs =
          StringField(CanonicalRepo \o <<"/issues", "/", "7", "/issues">>)
    /\ sites.packageInfo.homepage = StringField(CanonicalRepo)
    /\ sites.repositoryUrl = Some(CanonicalRepo)
    /\ linksLabelled("HomePage") = {}
    /\ linksLabelled("Repository") = {CanonicalRepo}

(***************************************************************************)
(* The claim about overlapping invocations.                                *)
(***************************************************************************)
\* the negated patterns an item of the invocation was expanded with
combinedWith(r, k) == Range(Tail(r.tasks[k].patterns))

\* C13 as stated: in every invocation on the provider instance, the negated
\* patterns combined with each non-negated pattern are exactly the negated
\* entries of the invocation's own `files` list, whatever other invocations
\* aborted before it or run concurrently with it.
C13_OwnNegatedPatternsOnly ==
    \A i \in DOMAIN inv :
        inv[i].returned = "lenses" =>
            \A k \in 1..Len(inv[i].tasks) :
                ~inv[i].tasks[k].isNegated =>
                    combinedWith(inv[i], k) = ownNegated(inv[i])

====
